---- MODULE Spec2Model ----
(***************************************************************************)
(* Simulation service of the stochastic cyber-risk application: the job    *)
(* records kept by the simulation blueprint (run / stop / delete and the   *)
(* background task _run_simulation_background) and the Monte Carlo engine  *)
(* (SimulationEngine: sequential loop, parallel batches, progress          *)
(* callback, stop flag).                                                   *)
(*                                                                         *)
(* Representation notes.                                                   *)
(*  - An optional value (Python None or a value) is the empty set or a     *)
(*    singleton set.                                                       *)
(*  - A seed is a pair of 16-bit limbs [hi, lo] (value hi * 2^16 + lo), so *)
(*    that 2^32 - 1 and sums above it are representable.                   *)
(*  - A numpy RandomState is identified by what it was seeded with: a seed *)
(*    or a draw of OS entropy.  The loss of the k-th iteration drawn from  *)
(*    a stream is a fixed function of the stream and k (IterationLoss).    *)
(*  - aggregate_losses is kept per batch: for every batch either "still    *)
(*    zero" or the stream its slice was filled from; LossAt expands it to  *)
(*    the value of one slot.  iteration_details is kept as the order in    *)
(*    which the batches' detail lists were appended; DetailVector expands  *)
(*    it.                                                                  *)
(*  - Amounts of money are exact: an integer number of hundredths of the   *)
(*    currency unit (Money(n) is n units).  A rate (coinsurance, cession   *)
(*    rate) is an integer number of tenths, and Times(x, r) is x times the *)
(*    rate r; the amounts and rates of the model are chosen so that every  *)
(*    product is exact.  These operators carry no floating-point rounding. *)
(*  - The same calculator is also evaluated in binary64, the arithmetic    *)
(*    of the Python floats it runs on (operators ending in _f64, variable  *)
(*    float64, SpecFloat), for what depends on the rounding.               *)
(***************************************************************************)
EXTENDS Integers, Sequences, FiniteSets, TLC

\* ------------------------------------------------------------------ bounds
NumJobs == 2
NumUsers == 2
NumEntropy == 2
LossMod == 11
MaxBatches == 3
MaxFine == 2
MaxLayers == 2
MaxLosses == 3

\* ------------------------------------------------------- program constants
DefaultMaxConcurrent == 5
DefaultMaxWorkers == 4
IterationsPerWorker == 1000
ProgressInterval == 1000
EmitInterval == 1000
MaxIterations == 10000000

Jobs == 1..NumJobs
Users == 1..NumUsers
Entropy == 1..NumEntropy

\* ---------------------------------------------------------------- helpers
None == {}
Some(v) == {v}
IsNone(x) == x = {}
Get(x) == CHOOSE v \in x : TRUE
Min(a, b) == IF a <= b THEN a ELSE b

\* seeds: 32-bit range check of numpy.random.RandomState
SeedOf(n) == [hi |-> n \div 65536, lo |-> n % 65536]
MaxSeed == [hi |-> 65535, lo |-> 65535]
SeedAdd(s, n) == [hi |-> s.hi + ((s.lo + n) \div 65536), lo |-> (s.lo + n) % 65536]
SeedInRange(s) == s.hi >= 0 /\ s.hi <= MaxSeed.hi
SeedIsZero(s) == s.hi = 0 /\ s.lo = 0

\* RandomState(seed) and RandomState() / RandomState(None)
SeededStream(s) == [entropy |-> 0, hi |-> s.hi, lo |-> s.lo]
EntropyStream(e) == [entropy |-> e, hi |-> 0, lo |-> 0]
NoStream == [entropy |-> 0, hi |-> 0 - 1, lo |-> 0]

\* The loss of the k-th iteration (k = 0, 1, ...) drawn from stream rs: the
\* frequency sample, the severity samples and their sum.  Non-negative.
IterationLoss(rs, k) == (rs.lo + 3 * rs.hi + 5 * rs.entropy + 2 * k + 1) % LossMod

\* ------------------------------------------------------------- job specs
\* What a submission carries of SimulationRequestSchema (the fields the
\* engine's control flow reads).
IterationChoices == {1, 2, 1000, 2500}
BatchSizeChoices == {1, 1000}
MaxWorkersChoices == {None, Some(1), Some(2)}
SeedChoices == {None, Some(SeedOf(0)), Some(SeedOf(42)), Some(MaxSeed)}
\* frequency_params of a poisson frequency: no 'lambda' key, or its value
LambdaChoices == {None, Some(0), Some(2)}
\* reinsurance_config: the keys of the dict
ConfigChoices == {{}, {"layers"}}
WindowChoices == {1, 1000}

NumBatches(p) == (p.num_iterations + p.batch_size - 1) \div p.batch_size

\* SimulationRequestSchema: the field validators of the request
SchemaValid(p) ==
    /\ 1 <= p.num_iterations /\ p.num_iterations <= MaxIterations
    /\ p.batch_size > 0
    /\ (IF IsNone(p.max_workers) THEN TRUE ELSE Get(p.max_workers) > 0)
    /\ p.convergence_window > 0

\* The values the request schema fills in for the fields a request leaves out
\* (with a valid poisson frequency)
DefaultOptions(p) ==
    /\ p.frequency_params = Some(2)
    /\ ~p.apply_reinsurance /\ p.reinsurance_config = {}
    /\ ~p.convergence_check /\ p.convergence_window = 1000

\* The job spec with which the other fields are varied
PlainRun(p) ==
    /\ p.num_iterations = 2 /\ p.batch_size = 1
    /\ ~p.parallel_processing /\ IsNone(p.max_workers)
    /\ p.random_seed = Some(SeedOf(42)) /\ ~p.save_raw_losses

EngineChoices ==
    { p \in [ num_iterations : IterationChoices,
              batch_size : BatchSizeChoices,
              parallel_processing : BOOLEAN,
              max_workers : MaxWorkersChoices,
              random_seed : SeedChoices,
              save_raw_losses : BOOLEAN,
              frequency_params : LambdaChoices,
              apply_reinsurance : BOOLEAN,
              reinsurance_config : ConfigChoices,
              convergence_check : BOOLEAN,
              convergence_window : WindowChoices ] :
        /\ SchemaValid(p) /\ NumBatches(p) <= MaxBatches
        /\ (IF DefaultOptions(p) THEN TRUE ELSE PlainRun(p)) }

\* The job specs of the service-level specification: a sequential run and a
\* parallel run of two batches on two workers.
ServiceChoices ==
    { p \in EngineChoices :
        /\ p.num_iterations = (IF p.parallel_processing THEN 2 ELSE 1)
        /\ p.batch_size = 1
        /\ p.max_workers = (IF p.parallel_processing THEN Some(2) ELSE None)
        /\ p.random_seed = Some(SeedOf(42))
        /\ ~p.save_raw_losses
        /\ DefaultOptions(p) }

\* The job specs of the two-run specification: seeded runs of two iterations,
\* sequential or as two batches on two workers.
RunChoices ==
    { p \in EngineChoices :
        /\ p.num_iterations = 2 /\ p.batch_size = 1
        /\ p.max_workers = (IF p.parallel_processing THEN Some(2) ELSE None)
        /\ ~IsNone(p.random_seed)
        /\ DefaultOptions(p) }

NoParams == [ num_iterations |-> 0, batch_size |-> 0, parallel_processing |-> FALSE,
              max_workers |-> None, random_seed |-> None, save_raw_losses |-> FALSE,
              frequency_params |-> None, apply_reinsurance |-> FALSE, reinsurance_config |-> {},
              convergence_check |-> FALSE, convergence_window |-> 0 ]

\* SimulationParameters.validate: the checks that read the modelled fields
\* (basic, event, financial and performance parameters)
ParamsValid(p) ==
    /\ p.num_iterations > 0
    /\ p.num_iterations <= MaxIterations
    /\ (IF IsNone(p.random_seed) THEN TRUE ELSE SeedInRange(Get(p.random_seed)))
    /\ (IF IsNone(p.frequency_params) THEN FALSE ELSE Get(p.frequency_params) > 0)
    /\ (IF p.apply_reinsurance THEN p.reinsurance_config # {} ELSE TRUE)
    /\ p.batch_size > 0
    /\ p.batch_size <= p.num_iterations
    /\ (IF IsNone(p.max_workers) THEN TRUE ELSE Get(p.max_workers) > 0)
    /\ (IF p.convergence_check
        THEN p.convergence_window > 0 /\ p.convergence_window < p.num_iterations
        ELSE TRUE)

\* SimulationParameters.to_dict: every field under its own key, the event
\* parameters nested under 'event_params'.  Fractions (convergence_threshold,
\* percentile_levels) are carried in thousandths; an empty dict is None.
to_dict(p) ==
    [ num_iterations |-> p.num_iterations,
      random_seed |-> p.random_seed,
      event_params |-> [ frequency_distribution |-> p.frequency_distribution,
                         frequency_params |-> p.frequency_params,
                         severity_distribution |-> p.severity_distribution,
                         severity_params |-> p.severity_params,
                         correlation_enabled |-> p.correlation_enabled,
                         correlation_params |-> p.correlation_params ],
      portfolio_id |-> p.portfolio_id,
      portfolio_config |-> p.portfolio_config,
      apply_deductibles |-> p.apply_deductibles,
      apply_limits |-> p.apply_limits,
      apply_reinsurance |-> p.apply_reinsurance,
      reinsurance_config |-> p.reinsurance_config,
      max_events_per_iteration |-> p.max_events_per_iteration,
      convergence_check |-> p.convergence_check,
      convergence_threshold |-> p.convergence_threshold,
      convergence_window |-> p.convergence_window,
      batch_size |-> p.batch_size,
      parallel_processing |-> p.parallel_processing,
      max_workers |-> p.max_workers,
      save_raw_losses |-> p.save_raw_losses,
      calculate_percentiles |-> p.calculate_percentiles,
      percentile_levels |-> p.percentile_levels ]

\* A from_dict that looks for the event parameters at the top level of the
\* dictionary.
from_dict_FlatEventParams(data) ==
    LET get(d, key, default) == IF key \in DOMAIN d THEN d[key] ELSE default
        event_params_data == get(data, "event_params", <<>>)
    IN [ frequency_distribution |-> get(data, "frequency_distribution", "poisson"),
         frequency_params |-> get(data, "frequency_params", None),
         severity_distribution |-> get(data, "severity_distribution", "lognormal"),
         severity_params |-> get(data, "severity_params", None),
         correlation_enabled |-> get(data, "correlation_enabled", FALSE),
         correlation_params |-> get(data, "correlation_params", None),
         num_iterations |-> get(data, "num_iterations", 10000),
         random_seed |-> get(data, "random_seed", None),
         portfolio_id |-> get(data, "portfolio_id", None),
         portfolio_config |-> get(data, "portfolio_config", None),
         apply_deductibles |-> get(data, "apply_deductibles", TRUE),
         apply_limits |-> get(data, "apply_limits", TRUE),
         apply_reinsurance |-> get(data, "apply_reinsurance", FALSE),
         reinsurance_config |-> get(data, "reinsurance_config", {}),
         max_events_per_iteration |-> get(data, "max_events_per_iteration", 100),
         convergence_check |-> get(data, "convergence_check", FALSE),
         convergence_threshold |-> get(data, "convergence_threshold", 1),
         convergence_window |-> get(data, "convergence_window", 1000),
         batch_size |-> get(data, "batch_size", 1000),
         parallel_processing |-> get(data, "parallel_processing", TRUE),
         max_workers |-> get(data, "max_workers", None),
         save_raw_losses |-> get(data, "save_raw_losses", FALSE),
         calculate_percentiles |-> get(data, "calculate_percentiles", TRUE),
         percentile_levels |-> get(data, "percentile_levels", <<10, 50, 100, 250, 500, 750, 900, 950, 990, 999>>) ]

\* SimulationParameters.from_dict: data.get(key, default) for every field,
\* the event parameters read from data.get('event_params', {})
from_dict(data) ==
    LET get(d, key, default) == IF key \in DOMAIN d THEN d[key] ELSE default
        event_params_data == get(data, "event_params", <<>>)
    IN [ frequency_distribution |-> get(event_params_data, "frequency_distribution", "poisson"),
         frequency_params |-> get(event_params_data, "frequency_params", None),
         severity_distribution |-> get(event_params_data, "severity_distribution", "lognormal"),
         severity_params |-> get(event_params_data, "severity_params", None),
         correlation_enabled |-> get(event_params_data, "correlation_enabled", FALSE),
         correlation_params |-> get(event_params_data, "correlation_params", None),
         num_iterations |-> get(data, "num_iterations", 10000),
         random_seed |-> get(data, "random_seed", None),
         portfolio_id |-> get(data, "portfolio_id", None),
         portfolio_config |-> get(data, "portfolio_config", None),
         apply_deductibles |-> get(data, "apply_deductibles", TRUE),
         apply_limits |-> get(data, "apply_limits", TRUE),
         apply_reinsurance |-> get(data, "apply_reinsurance", FALSE),
         reinsurance_config |-> get(data, "reinsurance_config", {}),
         max_events_per_iteration |-> get(data, "max_events_per_iteration", 100),
         convergence_check |-> get(data, "convergence_check", FALSE),
         convergence_threshold |-> get(data, "convergence_threshold", 1),
         convergence_window |-> get(data, "convergence_window", 1000),
         batch_size |-> get(data, "batch_size", 1000),
         parallel_processing |-> get(data, "parallel_processing", TRUE),
         max_workers |-> get(data, "max_workers", None),
         save_raw_losses |-> get(data, "save_raw_losses", FALSE),
         calculate_percentiles |-> get(data, "calculate_percentiles", TRUE),
         percentile_levels |-> get(data, "percentile_levels", <<10, 50, 100, 250, 500, 750, 900, 950, 990, 999>>) ]

\* _execute_simulation: the branch taken
UsesParallel(p) == p.parallel_processing /\ p.max_workers # Some(1)

\* _run_parallel_simulation: pool size and batch layout
NumWorkersOf(p) ==
    IF ~IsNone(p.max_workers)
    THEN Get(p.max_workers)
    ELSE Min(DefaultMaxWorkers, p.num_iterations \div IterationsPerWorker)

\* Batches whose end index is not clamped to num_iterations
Batches_NoClamp(p) ==
    [ k \in 1..NumBatches(p) |->
        [ start |-> (k - 1) * p.batch_size,
          end |-> (k - 1) * p.batch_size + p.batch_size ] ]

\* _run_parallel_simulation: for i in range(0, num_iterations, batch_size):
\* (i, min(i + batch_size, num_iterations))
Batches(p) ==
    [ k \in 1..NumBatches(p) |->
        [ start |-> (k - 1) * p.batch_size,
          end |-> Min((k - 1) * p.batch_size + p.batch_size, p.num_iterations) ] ]

\* _run_simulation_batch: what the batch RNG is seeded with.  "raise" when
\* RandomState rejects the seed; an entropy draw when the seed expression is
\* None.
SeedTruthy(sd) == IF IsNone(sd) THEN FALSE ELSE ~SeedIsZero(Get(sd))
BatchSeedArg(p, start) == IF SeedTruthy(p.random_seed) THEN Some(SeedAdd(Get(p.random_seed), start)) ELSE None

\* ------------------------------------------------- financial calculator
Max(a, b) == IF a >= b THEN a ELSE b
Money(n) == n * 100
\* x * r for a rate r given in tenths
Times(x, r) == (x \div 10) * r + ((x % 10) * r) \div 10

\* FinancialCalculator._is_within_waiting_period
is_within_waiting_period(event_date, waiting_period) ==
    IF IsNone(event_date) THEN FALSE
    ELSE IF waiting_period = 0 THEN FALSE
    ELSE Get(event_date) < waiting_period

\* min(sub_limits.values()); sub_limits is the set of the dict's values
RECURSIVE MinOf(_)
MinOf(S) ==
    LET x == CHOOSE y \in S : TRUE
    IN IF S = {x} THEN x ELSE Min(x, MinOf(S \ {x}))

\* FinancialCalculator._apply_sub_limits
apply_sub_limits(covered_loss, sub_limits) ==
    IF sub_limits = {} THEN covered_loss ELSE Min(covered_loss, MinOf(sub_limits))

\* A layer recovery that never applies the layer's limit.
calculate_layer_recovery_NoLimit(loss, layer) ==
    IF loss <= 0 THEN 0
    ELSE IF layer.layer_type \in {"quota_share", "surplus"} THEN Times(loss, layer.cession_rate)
    ELSE IF loss <= layer.attachment_point THEN 0
    ELSE IF layer.layer_type = "excess_of_loss" THEN loss - layer.attachment_point
    ELSE Times(loss - layer.attachment_point, layer.cession_rate)

\* FinancialCalculator._calculate_layer_recovery ("layer.limit or inf": no
\* limit leaves the amount as it is)
calculate_layer_recovery(loss, layer) ==
    LET capped(x) == IF IsNone(layer.limit) THEN x ELSE Min(x, Get(layer.limit))
    IN IF loss <= 0 THEN 0
       ELSE IF layer.layer_type = "quota_share" THEN Times(loss, layer.cession_rate)
       ELSE IF layer.layer_type = "surplus" THEN Times(capped(loss), layer.cession_rate)
       ELSE IF layer.layer_type = "excess_of_loss"
            THEN IF loss <= layer.attachment_point THEN 0
                 ELSE capped(loss - layer.attachment_point)
       ELSE IF layer.layer_type = "stop_loss"
            THEN IF loss <= layer.attachment_point THEN 0
                 ELSE capped(Times(loss - layer.attachment_point, layer.cession_rate))
       ELSE 0

\* sorted(reinsurance_layers, key=lambda x: x.priority): a stable sort
RECURSIVE InsertByPriority(_, _)
InsertByPriority(layer, sorted) ==
    IF sorted = <<>> THEN <<layer>>
    ELSE IF layer.priority < Head(sorted).priority THEN <<layer>> \o sorted
    ELSE <<Head(sorted)>> \o InsertByPriority(layer, Tail(sorted))

RECURSIVE SortByPriority(_)
SortByPriority(layers) ==
    IF layers = <<>> THEN <<>>
    ELSE InsertByPriority(layers[Len(layers)], SortByPriority(SubSeq(layers, 1, Len(layers) - 1)))

\* the loop of _calculate_reinsurance_recovery over the sorted layers
RECURSIVE LayerLoop(_, _, _)
LayerLoop(sorted_layers, total_recovery, remaining_loss) ==
    IF sorted_layers = <<>> THEN total_recovery
    ELSE IF remaining_loss <= 0 THEN total_recovery
    ELSE LET layer == Head(sorted_layers)
             layer_recovery == calculate_layer_recovery(remaining_loss, layer)
         IN LayerLoop(Tail(sorted_layers), total_recovery + layer_recovery,
                      IF layer.layer_type \in {"excess_of_loss", "stop_loss"}
                      THEN Max(0, remaining_loss - layer_recovery)
                      ELSE remaining_loss)

\* A recovery taken from the first layer in priority order only.
calculate_reinsurance_recovery_FirstLayerOnly(gross_loss, reinsurance_layers) ==
    IF reinsurance_layers = <<>> THEN 0
    ELSE IF gross_loss <= 0 THEN 0
    ELSE Min(calculate_layer_recovery(gross_loss, Head(SortByPriority(reinsurance_layers))),
             gross_loss)

\* FinancialCalculator._calculate_reinsurance_recovery
calculate_reinsurance_recovery(gross_loss, reinsurance_layers) ==
    IF reinsurance_layers = <<>> THEN 0
    ELSE IF gross_loss <= 0 THEN 0
    ELSE Min(LayerLoop(SortByPriority(reinsurance_layers), 0, gross_loss), gross_loss)

\* FinancialCalculator._create_loss_breakdown (the amounts; the two ratios are
\* quotients of these)
create_loss_breakdown(ground_up_loss, covered_loss, insurer_gross_loss, reinsurance_recovery, insurer_net_loss) ==
    [ ground_up_loss |-> ground_up_loss,
      covered_loss |-> covered_loss,
      insurer_gross_loss |-> insurer_gross_loss,
      reinsurance_recovery |-> reinsurance_recovery,
      insurer_net_loss |-> insurer_net_loss ]

\* FinancialCalculator.calculate_net_loss
calculate_net_loss(ground_up_loss, policy_terms, reinsurance_layers, event_date) ==
    IF is_within_waiting_period(event_date, policy_terms.waiting_period)
    THEN create_loss_breakdown(ground_up_loss, 0, 0, 0, 0)
    ELSE LET loss_after_deductible == Max(0, ground_up_loss - policy_terms.deductible)
             loss_after_coinsurance == Times(loss_after_deductible, 10 - policy_terms.coinsurance)
             covered_loss == apply_sub_limits(Min(loss_after_coinsurance, policy_terms.coverage_limit),
                                              policy_terms.sub_limits)
             insurer_gross_loss == covered_loss
             reinsurance_recovery ==
                 IF reinsurance_layers = <<>> THEN 0
                 ELSE calculate_reinsurance_recovery(insurer_gross_loss, reinsurance_layers)
         IN create_loss_breakdown(ground_up_loss, covered_loss, insurer_gross_loss,
                                  reinsurance_recovery, insurer_gross_loss - reinsurance_recovery)

\* sum(layer.cession_rate for layer in quota_share_layers)
RECURSIVE TotalCession(_)
TotalCession(layers) ==
    IF layers = <<>> THEN 0
    ELSE (IF Head(layers).layer_type = "quota_share" THEN Head(layers).cession_rate ELSE 0)
         + TotalCession(Tail(layers))

\* FinancialCalculator.calculate_batch_losses
calculate_batch_losses(losses, policy_terms, reinsurance_layers) ==
    LET quota_share_layers == SelectSeq(reinsurance_layers, LAMBDA l : l.layer_type = "quota_share")
        covered(x) ==
            apply_sub_limits(
                Min(Times(Max(0, x - policy_terms.deductible), 10 - policy_terms.coinsurance),
                    policy_terms.coverage_limit),
                policy_terms.sub_limits)
    IN [ i \in DOMAIN losses |->
            IF quota_share_layers # <<>>
            THEN Times(covered(losses[i]), 10 - Min(TotalCession(quota_share_layers), 10))
            ELSE covered(losses[i]) ]

\* the sum of f[x] over x in S
RECURSIVE SumOver(_, _)
SumOver(f, S) ==
    IF S = {} THEN 0
    ELSE LET x == CHOOSE y \in S : TRUE IN f[x] + SumOver(f, S \ {x})

\* FinancialCalculator.calculate_portfolio_loss.  event_losses and
\* portfolio_policies are functions of policy ids; reinsurance_config carries
\* 'policy_specific' (layers per policy id, for some ids) and 'portfolio_level'
\* (a list of layers; empty when the key is absent).
calculate_portfolio_loss(event_losses, portfolio_policies, reinsurance_config) ==
    LET covered_ids == DOMAIN event_losses \cap DOMAIN portfolio_policies
        policy_reinsurance(id) ==
            IF id \in DOMAIN reinsurance_config.policy_specific
            THEN reinsurance_config.policy_specific[id] ELSE <<>>
        policy_details ==
            [ id \in covered_ids |->
                calculate_net_loss(event_losses[id], portfolio_policies[id],
                                   policy_reinsurance(id), None) ]
        total_gross == SumOver([id \in covered_ids |-> policy_details[id].insurer_gross_loss], covered_ids)
        total_net == SumOver([id \in covered_ids |-> policy_details[id].insurer_net_loss], covered_ids)
        portfolio_reinsurance_recovery ==
            calculate_reinsurance_recovery(total_gross, reinsurance_config.portfolio_level)
    IN [ total_ground_up_loss |->
            SumOver([id \in covered_ids |-> policy_details[id].ground_up_loss], covered_ids),
         total_covered_loss |->
            SumOver([id \in covered_ids |-> policy_details[id].covered_loss], covered_ids),
         total_gross_loss |-> total_gross,
         portfolio_reinsurance_recovery |-> portfolio_reinsurance_recovery,
         total_net_loss |-> total_net - portfolio_reinsurance_recovery,
         affected_policies |-> Cardinality(DOMAIN event_losses),
         policies_with_loss |-> Cardinality({ id \in DOMAIN event_losses : event_losses[id] > 0 }) ]

\* SimulationEngine._calculate_portfolio_iteration_loss: every event is applied
\* to every policy through calculate_batch_losses(event_severities,
\* policy_terms), the policy totals are summed.  'policy_total' keeps the
\* local of the loop per policy id.
calculate_portfolio_iteration_loss(event_severities, portfolio_policies, parameters) ==
    LET RECURSIVE sum(_)
        sum(v) == IF v = <<>> THEN 0 ELSE Head(v) + sum(Tail(v))
        policy_total ==
            [ policy_id \in DOMAIN portfolio_policies |->
                IF Len(event_severities) > 0
                THEN sum(calculate_batch_losses(event_severities, portfolio_policies[policy_id], <<>>))
                ELSE 0 ]
    IN [ policy_total |-> policy_total,
         total_loss |-> SumOver(policy_total, DOMAIN policy_total) ]

\* ------------------------------------------- binary64 (Python float)
\* The calculator's amounts and rates are Python floats.  A non-negative
\* binary64 value is modelled as [m, e] standing for m * 2^e, where m is a
\* natural number of at most 53 bits, kept odd (or 0 with e = 0) so that equal
\* values are equal records.  m is a little-endian sequence of limbs below
\* LimbBase without high zero limbs.  Every operation rounds its exact result
\* to 53 bits, ties to even, as IEEE 754 does; overflow and subnormals do not
\* arise at the magnitudes of the inputs.
LimbBits == 15
LimbBase == 32768
MantissaBits == 53

RECURSIVE Pow2(_)
Pow2(n) == IF n = 0 THEN 1 ELSE 2 * Pow2(n - 1)

RECURSIVE BigTrim(_)
BigTrim(a) ==
    IF a = <<>> THEN <<>>
    ELSE IF a[Len(a)] = 0 THEN BigTrim(SubSeq(a, 1, Len(a) - 1)) ELSE a

RECURSIVE ToBig(_)
ToBig(n) == IF n = 0 THEN <<>> ELSE <<n % LimbBase>> \o ToBig(n \div LimbBase)

RECURSIVE BigAddC(_, _, _)
BigAddC(a, b, carry) ==
    IF a = <<>> /\ b = <<>> THEN ToBig(carry)
    ELSE LET x == (IF a = <<>> THEN 0 ELSE Head(a)) + (IF b = <<>> THEN 0 ELSE Head(b)) + carry
         IN <<x % LimbBase>> \o BigAddC(IF a = <<>> THEN <<>> ELSE Tail(a),
                                        IF b = <<>> THEN <<>> ELSE Tail(b), x \div LimbBase)
BigAdd(a, b) == BigAddC(a, b, 0)

\* a - b for a >= b
RECURSIVE BigSubB(_, _, _)
BigSubB(a, b, borrow) ==
    IF a = <<>> THEN <<>>
    ELSE LET x == Head(a) - (IF b = <<>> THEN 0 ELSE Head(b)) - borrow
         IN <<x % LimbBase>> \o BigSubB(Tail(a), IF b = <<>> THEN <<>> ELSE Tail(b),
                                        IF x < 0 THEN 1 ELSE 0)
BigSub(a, b) == BigTrim(BigSubB(a, b, 0))

\* a * k for 0 <= k < LimbBase
RECURSIVE BigMulSmallC(_, _, _)
BigMulSmallC(a, k, carry) ==
    IF a = <<>> THEN ToBig(carry)
    ELSE LET x == Head(a) * k + carry
         IN <<x % LimbBase>> \o BigMulSmallC(Tail(a), k, x \div LimbBase)
BigMulSmall(a, k) == BigTrim(BigMulSmallC(a, k, 0))

RECURSIVE BigMul(_, _)
BigMul(a, b) ==
    IF a = <<>> \/ b = <<>> THEN <<>>
    ELSE LET rest == BigMul(a, Tail(b))
         IN BigAdd(BigMulSmall(a, Head(b)), IF rest = <<>> THEN <<>> ELSE <<0>> \o rest)

\* quotient and remainder of a by k, 0 < k < LimbBase
RECURSIVE BigDivSmall(_, _)
BigDivSmall(a, k) ==
    IF a = <<>> THEN [q |-> <<>>, r |-> 0]
    ELSE LET hi == BigDivSmall(Tail(a), k)
             x == hi.r * LimbBase + Head(a)
         IN [q |-> BigTrim(<<x \div k>> \o hi.q), r |-> x % k]

\* -1, 0 or 1 as a < b, a = b or a > b
RECURSIVE BigCmp(_, _)
BigCmp(a, b) ==
    IF Len(a) # Len(b) THEN (IF Len(a) < Len(b) THEN -1 ELSE 1)
    ELSE IF a = <<>> THEN 0
    ELSE IF a[Len(a)] # b[Len(b)] THEN (IF a[Len(a)] < b[Len(b)] THEN -1 ELSE 1)
    ELSE BigCmp(SubSeq(a, 1, Len(a) - 1), SubSeq(b, 1, Len(b) - 1))

RECURSIVE BitLength(_)
BitLength(x) == IF x = 0 THEN 0 ELSE 1 + BitLength(x \div 2)
BigBitLength(a) == IF a = <<>> THEN 0 ELSE LimbBits * (Len(a) - 1) + BitLength(a[Len(a)])

\* a * 2^n and a \div 2^n
BigShl(a, n) ==
    IF a = <<>> THEN <<>>
    ELSE [i \in 1..(n \div LimbBits) |-> 0] \o BigMulSmall(a, Pow2(n % LimbBits))
BigShr(a, n) ==
    IF Len(a) <= n \div LimbBits THEN <<>>
    ELSE BigDivSmall(SubSeq(a, n \div LimbBits + 1, Len(a)), Pow2(n % LimbBits)).q

\* the record of m * 2^e with m made odd
RECURSIVE F64(_, _)
F64(m, e) ==
    IF m = <<>> THEN [m |-> <<>>, e |-> 0]
    ELSE IF Head(m) = 0 THEN F64(Tail(m), e + LimbBits)
    ELSE IF Head(m) % 2 = 0 THEN F64(BigShr(m, 1), e + 1)
    ELSE [m |-> m, e |-> e]

\* m * 2^e rounded to MantissaBits bits, ties to even
F64Round(m, e) ==
    IF BigBitLength(m) <= MantissaBits THEN F64(m, e)
    ELSE LET n == BigBitLength(m) - MantissaBits
             q == BigShr(m, n)
             rem == BigSub(m, BigShl(q, n))
             half == BigCmp(rem, BigShl(<<1>>, n - 1))
             up == IF half > 0 THEN TRUE ELSE IF half < 0 THEN FALSE ELSE Head(q) % 2 = 1
         IN F64(IF up THEN BigAdd(q, <<1>>) ELSE q, e + n)

\* float(n) for a natural number n, and the float literal n/10
F64FromInt(n) == F64(ToBig(n), 0)
F64FromTenths(n) ==
    LET d == BigDivSmall(BigShl(ToBig(n), 60), 10)
        sticky == IF d.r # 0 /\ d.q # <<>> /\ Head(d.q) % 2 = 0
                  THEN BigAdd(d.q, <<1>>) ELSE d.q
    IN F64Round(sticky, -60)

F64Cmp(a, b) ==
    LET e == Min(a.e, b.e)
    IN BigCmp(BigShl(a.m, a.e - e), BigShl(b.m, b.e - e))
F64Min(a, b) == IF F64Cmp(a, b) <= 0 THEN a ELSE b
F64Add(a, b) ==
    LET e == Min(a.e, b.e)
    IN F64Round(BigAdd(BigShl(a.m, a.e - e), BigShl(b.m, b.e - e)), e)
\* a - b for a >= b
F64Sub(a, b) ==
    LET e == Min(a.e, b.e)
    IN F64Round(BigSub(BigShl(a.m, a.e - e), BigShl(b.m, b.e - e)), e)
F64Mul(a, b) == F64Round(BigMul(a.m, b.m), a.e + b.e)
F64Zero == F64(<<>>, 0)
F64One == F64FromInt(1)

\* The calculator evaluated in binary64.  Amounts of the arguments are whole
\* currency units held in hundredths, rates are held in tenths.
Amount64(x) == F64FromInt(x \div 100)
Rate64(r) == F64FromTenths(r)

\* FinancialCalculator._calculate_layer_recovery
calculate_layer_recovery_f64(loss, layer) ==
    LET capped(x) == IF IsNone(layer.limit) THEN x ELSE F64Min(x, Amount64(Get(layer.limit)))
        attachment == Amount64(layer.attachment_point)
    IN IF F64Cmp(loss, F64Zero) <= 0 THEN F64Zero
       ELSE IF layer.layer_type = "quota_share" THEN F64Mul(loss, Rate64(layer.cession_rate))
       ELSE IF layer.layer_type = "surplus" THEN F64Mul(capped(loss), Rate64(layer.cession_rate))
       ELSE IF layer.layer_type = "excess_of_loss"
            THEN IF F64Cmp(loss, attachment) <= 0 THEN F64Zero
                 ELSE capped(F64Sub(loss, attachment))
       ELSE IF layer.layer_type = "stop_loss"
            THEN IF F64Cmp(loss, attachment) <= 0 THEN F64Zero
                 ELSE capped(F64Mul(F64Sub(loss, attachment), Rate64(layer.cession_rate)))
       ELSE F64Zero

\* the loop of _calculate_reinsurance_recovery over the sorted layers
RECURSIVE LayerLoop_f64(_, _, _)
LayerLoop_f64(sorted_layers, total_recovery, remaining_loss) ==
    IF sorted_layers = <<>> THEN total_recovery
    ELSE IF F64Cmp(remaining_loss, F64Zero) <= 0 THEN total_recovery
    ELSE LET layer == Head(sorted_layers)
             layer_recovery == calculate_layer_recovery_f64(remaining_loss, layer)
         IN LayerLoop_f64(Tail(sorted_layers), F64Add(total_recovery, layer_recovery),
                          IF layer.layer_type \in {"excess_of_loss", "stop_loss"}
                          THEN IF F64Cmp(remaining_loss, layer_recovery) <= 0 THEN F64Zero
                               ELSE F64Sub(remaining_loss, layer_recovery)
                          ELSE remaining_loss)

\* FinancialCalculator._calculate_reinsurance_recovery
calculate_reinsurance_recovery_f64(gross_loss, reinsurance_layers) ==
    IF reinsurance_layers = <<>> THEN F64Zero
    ELSE IF F64Cmp(gross_loss, F64Zero) <= 0 THEN F64Zero
    ELSE F64Min(LayerLoop_f64(SortByPriority(reinsurance_layers), F64Zero, gross_loss), gross_loss)

\* covered loss: deductible, coinsurance, limit, sub-limits (the same
\* expressions in calculate_net_loss and calculate_batch_losses)
covered_loss_f64(ground_up_loss, policy_terms) ==
    LET loss == Amount64(ground_up_loss)
        deductible == Amount64(policy_terms.deductible)
        loss_after_deductible ==
            IF F64Cmp(loss, deductible) <= 0 THEN F64Zero ELSE F64Sub(loss, deductible)
        loss_after_coinsurance ==
            F64Mul(loss_after_deductible, F64Sub(F64One, Rate64(policy_terms.coinsurance)))
        limited == F64Min(loss_after_coinsurance, Amount64(policy_terms.coverage_limit))
    IN IF policy_terms.sub_limits = {} THEN limited
       ELSE F64Min(limited, Amount64(MinOf(policy_terms.sub_limits)))

\* FinancialCalculator.calculate_net_loss: insurer_net_loss
calculate_net_loss_f64(ground_up_loss, policy_terms, reinsurance_layers, event_date) ==
    IF is_within_waiting_period(event_date, policy_terms.waiting_period) THEN F64Zero
    ELSE LET insurer_gross_loss == covered_loss_f64(ground_up_loss, policy_terms)
             reinsurance_recovery ==
                 calculate_reinsurance_recovery_f64(insurer_gross_loss, reinsurance_layers)
         IN F64Sub(insurer_gross_loss, reinsurance_recovery)

\* sum(layer.cession_rate for layer in quota_share_layers), added left to right
RECURSIVE TotalCession_f64(_, _)
TotalCession_f64(layers, total) ==
    IF layers = <<>> THEN total
    ELSE TotalCession_f64(Tail(layers), F64Add(total, Rate64(Head(layers).cession_rate)))

\* FinancialCalculator.calculate_batch_losses
calculate_batch_losses_f64(losses, policy_terms, reinsurance_layers) ==
    LET quota_share_layers == SelectSeq(reinsurance_layers, LAMBDA l : l.layer_type = "quota_share")
        retained == F64Sub(F64One, F64Min(TotalCession_f64(quota_share_layers, F64Zero), F64One))
    IN [ i \in DOMAIN losses |->
            IF quota_share_layers # <<>>
            THEN F64Mul(covered_loss_f64(losses[i], policy_terms), retained)
            ELSE covered_loss_f64(losses[i], policy_terms) ]

\* ------------------------------------------------ risk metrics (binary64)
\* a / k for a natural number 0 < k < LimbBase, and floor(a) of a small a
F64DivInt(a, k) ==
    LET d == BigDivSmall(BigShl(a.m, 60), k)
        sticky == IF d.r # 0 /\ d.q # <<>> /\ Head(d.q) % 2 = 0
                  THEN BigAdd(d.q, <<1>>) ELSE d.q
    IN F64Round(sticky, a.e - 60)
F64Floor(a) ==
    LET b == IF a.e >= 0 THEN BigShl(a.m, a.e) ELSE BigShr(a.m, 0 - a.e)
    IN IF b = <<>> THEN 0 ELSE Head(b)

\* RiskMetricsCalculator.confidence_levels, in thousandths: [0.95, 0.99, 0.999]
ConfidenceLevels == {950, 990, 999}

\* np.percentile(losses, confidence_level * 100) with numpy's default method
\* 'linear': the values are sorted, the virtual index is (n - 1) * q with
\* q = percentile / 100, and the result interpolates between the two
\* neighbouring order statistics (from below for a fraction under 0.5, from
\* above otherwise).
percentile(losses, confidence_level) ==
    LET RECURSIVE insert(_, _)
        insert(x, sorted) ==
            IF sorted = <<>> THEN <<x>>
            ELSE IF F64Cmp(x, Head(sorted)) <= 0 THEN <<x>> \o sorted
            ELSE <<Head(sorted)>> \o insert(x, Tail(sorted))
        RECURSIVE sort(_)
        sort(xs) == IF xs = <<>> THEN <<>> ELSE insert(Head(xs), sort(Tail(xs)))
        arr == sort(losses)
        n == Len(arr)
        level == F64DivInt(F64FromInt(confidence_level), 1000)
        q == F64DivInt(F64Mul(level, F64FromInt(100)), 100)
        virtual_index == F64Mul(F64FromInt(n - 1), q)
        previous_index == Min(F64Floor(virtual_index), n - 1)
        next_index == Min(previous_index + 1, n - 1)
        gamma == F64Sub(virtual_index, F64FromInt(previous_index))
        a == arr[previous_index + 1]
        b == arr[next_index + 1]
        diff_b_a == F64Sub(b, a)
    IN IF F64Cmp(gamma, F64FromTenths(5)) >= 0
       THEN F64Sub(b, F64Mul(diff_b_a, F64Sub(F64One, gamma)))
       ELSE F64Add(a, F64Mul(diff_b_a, gamma))

\* RiskMetricsCalculator._calculate_var
calculate_var(losses) ==
    [ confidence_level \in ConfidenceLevels |-> percentile(losses, confidence_level) ]

\* RiskMetricsCalculator._calculate_tvar: np.mean adds the tail losses from
\* left to right and divides by their number
calculate_tvar(losses) ==
    [ confidence_level \in ConfidenceLevels |->
        LET var_threshold == percentile(losses, confidence_level)
            tail_losses == SelectSeq(losses, LAMBDA x : F64Cmp(x, var_threshold) >= 0)
            RECURSIVE sum(_, _)
            sum(xs, acc) == IF xs = <<>> THEN acc ELSE sum(Tail(xs), F64Add(acc, Head(xs)))
        IN IF Len(tail_losses) > 0
           THEN F64DivInt(sum(tail_losses, F64Zero), Len(tail_losses))
           ELSE var_threshold ]

\* ---------------------------------------------------------------- state
VARIABLES
    max_concurrent_simulations, \* SystemConfiguration row 'max_concurrent_simulations'
    row,                  \* simulation_runs row: "absent" | "present" | "deleted"
    owner,                \* SimulationRun.user_id
    params,               \* num_iterations, random_seed, simulation_config
    status,               \* SimulationRun.status
    db_current_iteration, \* SimulationRun.current_iteration
    error_message,        \* SimulationRun.error_message
    events,               \* events emitted for the job to room user_<owner>, in order
    pc,                   \* position of _run_simulation_background for the job
    raised,               \* the exception in flight in the background task
    run_result,           \* engine.run_simulation: "none" | "returned" | "raised"
    should_stop,          \* SimulationEngine.should_stop
    current_iteration,    \* SimulationEngine.current_iteration
    random_state,         \* SimulationEngine.random_state
    future,               \* per batch: state of its future and the stream it used
    collect_order,        \* batches yielded by as_completed so far, in order
    aggregate_losses,     \* per batch: None (slice still zero) or Some(stream)
    iteration_details,    \* batches whose details were appended, in order
    completed_iterations, \* local of _run_parallel_simulation
    stop_accepted,        \* history: how far the run was when stop was accepted
    fin,                  \* a use of the FinancialCalculator on one policy: arguments and results
    portfolio,            \* a use of calculate_portfolio_loss: arguments and result
    float64,              \* the binary64 results of the calculator for the arguments in fin
    metrics,              \* a use of RiskMetricsCalculator: the losses, VaR and TVaR per level
    serialized,           \* a use of SimulationParameters.to_dict / from_dict
    portfolio_iteration   \* a use of _calculate_portfolio_iteration_loss

dbVars == <<row, owner, params, status, db_current_iteration, error_message>>
engineVars == <<should_stop, current_iteration, random_state, future, collect_order,
                aggregate_losses, iteration_details, completed_iterations>>
serviceVars == <<max_concurrent_simulations, row, owner, params, status, db_current_iteration,
                 error_message, events, pc, raised, run_result, should_stop, current_iteration,
                 random_state, future, collect_order, aggregate_losses, iteration_details,
                 completed_iterations, stop_accepted>>
calcVars == <<fin, portfolio, float64>>
libVars == <<metrics, serialized, portfolio_iteration>>
vars == <<serviceVars, calcVars, libVars>>

Terminal == {"completed", "failed", "cancelled"}

Event(kind, it) == [kind |-> kind, current_iteration |-> it]

CapChoices == {1, DefaultMaxConcurrent}

\* no calculation in progress
NoCalc == [ losses |-> <<>>, policy_terms |-> {}, reinsurance_layers |-> <<>>,
            event_date |-> None, breakdown |-> <<>>, batch |-> None ]
NoPortfolio == [ event_losses |-> <<>>, portfolio_policies |-> <<>>,
                 reinsurance_config |-> [policy_specific |-> <<>>, portfolio_level |-> <<>>],
                 result |-> None ]
NoFloat == [ net |-> <<>>, batch |-> None ]
\* no use of the metrics calculator, of the serialization or of the portfolio
\* iteration loss
NoLibrary ==
    /\ metrics = [ losses |-> <<>>, var |-> None, tvar |-> None ]
    /\ serialized = [ parameters |-> None, data |-> None, parsed |-> None ]
    /\ portfolio_iteration = [ event_severities |-> <<>>, portfolio_policies |-> <<>>,
                               parameters |-> None, result |-> None ]

InitService ==
    /\ max_concurrent_simulations \in CapChoices
    /\ row = [j \in Jobs |-> "absent"]
    /\ owner = [j \in Jobs |-> 1]
    /\ params = [j \in Jobs |-> NoParams]
    /\ status = [j \in Jobs |-> "pending"]
    /\ db_current_iteration = [j \in Jobs |-> 0]
    /\ error_message = [j \in Jobs |-> "none"]
    /\ events = [j \in Jobs |-> <<>>]
    /\ pc = [j \in Jobs |-> "idle"]
    /\ raised = [j \in Jobs |-> "none"]
    /\ run_result = [j \in Jobs |-> "none"]
    /\ should_stop = [j \in Jobs |-> FALSE]
    /\ current_iteration = [j \in Jobs |-> 0]
    /\ random_state = [j \in Jobs |-> NoStream]
    /\ future = [j \in Jobs |-> <<>>]
    /\ collect_order = [j \in Jobs |-> <<>>]
    /\ aggregate_losses = [j \in Jobs |-> <<>>]
    /\ iteration_details = [j \in Jobs |-> <<>>]
    /\ completed_iterations = [j \in Jobs |-> 0]
    /\ stop_accepted = [j \in Jobs |-> "no"]

Init ==
    /\ InitService
    /\ fin = NoCalc
    /\ portfolio = NoPortfolio
    /\ float64 = NoFloat
    /\ NoLibrary


\* ------------------------------------------------------- derived values
N(j) == params[j].num_iterations
BatchRange(j, b) == Batches(params[j])[b]
BatchLen(j, b) == BatchRange(j, b).end - BatchRange(j, b).start
Finished(j) == { b \in DOMAIN future[j] : future[j][b].st # "pending" }
Yielded(j) == { collect_order[j][i] : i \in DOMAIN collect_order[j] }

\* An executor exit that does not wait for the submitted batches
PoolDrained_NoWait(j) == TRUE

\* ThreadPoolExecutor.__exit__: shutdown(wait=True) returns once every submitted
\* batch, started or still queued, has run
PoolDrained(j) == Finished(j) = DOMAIN future[j]

\* A faulty count that reports the end index of the batch just stored instead of the cumulative count
CompletedAfter_BatchEnd(completed, batch_start, batch_end) == batch_end

\* completed_iterations after one more batch is stored
CompletedAfter(completed, batch_start, batch_end) == completed + (batch_end - batch_start)

\* progress_callback of _run_simulation_background: its commit needs the row;
\* the event goes out every EmitInterval iterations or at 100%
CallbackRaises(j) == row[j] # "present"
EmitsProgress(cur, total) == IF cur % EmitInterval = 0 THEN TRUE ELSE cur = total
EventsAfterCallback(j, cur) ==
    IF EmitsProgress(cur, N(j))
    THEN [events EXCEPT ![j] = Append(@, Event("simulation_progress", cur))]
    ELSE events

\* the iterations the engine has accounted for so far (for the history variable)
EngineProgress(j) ==
    IF pc[j] \in {"par", "shutdown"} THEN completed_iterations[j] ELSE current_iteration[j]

\* ----------------------------------------------------- blueprint: run
\* POST /run: schema validation, the pending record, the background task.
\* Job ids are fresh; they are handed out in increasing order.
run_simulation(j, u, p) ==
    /\ row[j] = "absent"
    /\ \A i \in Jobs : i < j => row[i] # "absent"
    /\ SchemaValid(p)
    /\ row' = [row EXCEPT ![j] = "present"]
    /\ owner' = [owner EXCEPT ![j] = u]
    /\ params' = [params EXCEPT ![j] = p]
    /\ status' = [status EXCEPT ![j] = "pending"]
    /\ pc' = [pc EXCEPT ![j] = "scheduled"]
    /\ UNCHANGED <<calcVars, libVars, max_concurrent_simulations, db_current_iteration, error_message, events,
                   raised, run_result, engineVars, stop_accepted>>

\* ----------------------------------------------------- blueprint: stop
\* POST /<id>/stop: accepted for a pending or running record; marks the record
\* cancelled and emits simulation_stopped.  The engine object is local to the
\* background task and is not touched.
stop_simulation(j) ==
    /\ row[j] = "present"
    /\ status[j] \in {"pending", "running"}
    /\ status' = [status EXCEPT ![j] = "cancelled"]
    /\ error_message' = [error_message EXCEPT ![j] = "Stopped by user"]
    /\ events' = [events EXCEPT ![j] = Append(@, Event("simulation_stopped", 0))]
    /\ stop_accepted' = [stop_accepted EXCEPT ![j] =
            IF status[j] = "pending" THEN "pending"
            ELSE IF EngineProgress(j) < N(j) THEN "running_partial" ELSE "running_full"]
    /\ UNCHANGED <<calcVars, libVars, max_concurrent_simulations, row, owner, params, db_current_iteration,
                   pc, raised, run_result, engineVars>>

\* --------------------------------------------------- blueprint: delete
\* DELETE /<id>: refused only while the record says running.
delete_simulation(j) ==
    /\ row[j] = "present"
    /\ status[j] # "running"
    /\ row' = [row EXCEPT ![j] = "deleted"]
    /\ UNCHANGED <<calcVars, libVars, max_concurrent_simulations, owner, params, status, db_current_iteration,
                   error_message, events, pc, raised, run_result, engineVars, stop_accepted>>

\* ------------------------------------------- background task: first step
\* _run_simulation_background up to the simulation_status event: returns when
\* the record is gone, otherwise writes status 'running' whatever it was.
bg_start(j) ==
    /\ pc[j] = "scheduled"
    /\ IF row[j] # "present"
       THEN /\ pc' = [pc EXCEPT ![j] = "done"]
            /\ UNCHANGED <<status, events>>
       ELSE /\ status' = [status EXCEPT ![j] = "running"]
            /\ events' = [events EXCEPT ![j] = Append(@, Event("simulation_status", 0))]
            /\ pc' = [pc EXCEPT ![j] = "starting"]
    /\ UNCHANGED <<calcVars, libVars, max_concurrent_simulations, row, owner, params, db_current_iteration,
                   error_message, raised, run_result, engineVars, stop_accepted>>

\* ------------------------------------------------ engine: run_simulation
\* validate, _initialize_simulation, the branch of _execute_simulation and,
\* in parallel mode, the pool and the submission of every batch.
engine_begin(j) ==
    /\ pc[j] = "starting"
    /\ \E e \in Entropy :
        LET p == params[j]
            rs == IF IsNone(p.random_seed) THEN EntropyStream(e)
                  ELSE SeededStream(Get(p.random_seed))
        IN IF ~ParamsValid(p)
           THEN /\ pc' = [pc EXCEPT ![j] = "except"]
                /\ raised' = [raised EXCEPT ![j] = "ParameterError"]
                /\ run_result' = [run_result EXCEPT ![j] = "raised"]
                /\ UNCHANGED <<random_state, future, aggregate_losses>>
           ELSE IF UsesParallel(p) /\ NumWorkersOf(p) <= 0
           THEN /\ pc' = [pc EXCEPT ![j] = "except"]
                /\ raised' = [raised EXCEPT ![j] = "ValueError"]
                /\ run_result' = [run_result EXCEPT ![j] = "raised"]
                /\ random_state' = [random_state EXCEPT ![j] = rs]
                /\ UNCHANGED <<future, aggregate_losses>>
           ELSE /\ pc' = [pc EXCEPT ![j] = IF UsesParallel(p) THEN "par" ELSE "seq"]
                /\ random_state' = [random_state EXCEPT ![j] = rs]
                /\ future' = [future EXCEPT ![j] =
                        IF UsesParallel(p)
                        THEN [b \in 1..NumBatches(p) |-> [st |-> "pending", rs |-> NoStream]]
                        ELSE <<>>]
                /\ aggregate_losses' = [aggregate_losses EXCEPT ![j] =
                        IF UsesParallel(p) THEN [b \in 1..NumBatches(p) |-> None] ELSE <<>>]
                /\ UNCHANGED <<raised, run_result>>
    /\ UNCHANGED <<calcVars, libVars, max_concurrent_simulations, dbVars, events, should_stop, current_iteration,
                   collect_order, iteration_details, completed_iterations, stop_accepted>>

\* ------------------------------------------------ engine: sequential loop
\* A run of consecutive iterations of the loop of _execute_simulation.  The
\* iterations between two progress callbacks touch engine-local state only and
\* read should_stop; a run with no stop request in between is one step.  The
\* run is either a single iteration (within MaxFine iterations of a callback
\* point) or reaches the next callback point or the end of the loop.
seq_iterate(j) ==
    /\ pc[j] = "seq"
    /\ LET c == current_iteration[j]
           boundary == Min(N(j), ((c \div ProgressInterval) + 1) * ProgressInterval)
           steps == {boundary - c} \cup (IF c % ProgressInterval < MaxFine THEN {1} ELSE {})
       IN IF should_stop[j]
          THEN /\ pc' = [pc EXCEPT ![j] = "ret"]
               /\ UNCHANGED <<current_iteration, db_current_iteration, events, raised,
                              run_result, should_stop>>
          ELSE \E k \in steps :
               LET c2 == c + k
                   calls == c2 % ProgressInterval = 0
               IN /\ current_iteration' = [current_iteration EXCEPT ![j] = c2]
                  /\ IF calls /\ CallbackRaises(j)
                     THEN /\ pc' = [pc EXCEPT ![j] = "except"]
                          /\ raised' = [raised EXCEPT ![j] = "StaleDataError"]
                          /\ run_result' = [run_result EXCEPT ![j] = "raised"]
                          /\ should_stop' = [should_stop EXCEPT ![j] = FALSE]
                          /\ UNCHANGED <<db_current_iteration, events>>
                     ELSE /\ pc' = [pc EXCEPT ![j] = IF c2 = N(j) THEN "ret" ELSE "seq"]
                          /\ db_current_iteration' =
                                IF calls THEN [db_current_iteration EXCEPT ![j] = c2]
                                ELSE db_current_iteration
                          /\ events' = IF calls THEN EventsAfterCallback(j, c2) ELSE events
                          /\ UNCHANGED <<raised, run_result, should_stop>>
    /\ UNCHANGED <<calcVars, libVars, max_concurrent_simulations, row, owner, params, status, error_message,
                   random_state, future, collect_order, aggregate_losses, iteration_details,
                   completed_iterations, stop_accepted>>


\* ------------------------------------------------ engine: one batch task
\* _run_simulation_batch on a pool thread.  The pool takes the batches in
\* submission order, at most NumWorkersOf at a time, so a batch can finish
\* when fewer than that many earlier batches are unfinished.  The batch seeds
\* its own RandomState; it does not read should_stop.
run_batch(j, b) ==
    /\ pc[j] \in {"par", "shutdown"}
    /\ b \in DOMAIN future[j]
    /\ future[j][b].st = "pending"
    /\ Cardinality({ c \in 1..(b - 1) : future[j][c].st = "pending" }) < NumWorkersOf(params[j])
    /\ \E e \in Entropy :
        LET arg == BatchSeedArg(params[j], BatchRange(j, b).start)
        IN future' = [future EXCEPT ![j][b] =
                IF IsNone(arg) THEN [st |-> "done", rs |-> EntropyStream(e)]
                ELSE IF SeedInRange(Get(arg)) THEN [st |-> "done", rs |-> SeededStream(Get(arg))]
                ELSE [st |-> "raised", rs |-> NoStream]]
    /\ UNCHANGED <<calcVars, libVars, max_concurrent_simulations, dbVars, events, pc, raised, run_result,
                   should_stop, current_iteration, random_state, collect_order,
                   aggregate_losses, iteration_details, completed_iterations, stop_accepted>>

\* ------------------------------------------- engine: the collection loop
\* One turn of "for future in as_completed(...)": a finished future is
\* yielded; stop check; the slice, the details, the counter, the callback.
collect(j) ==
    /\ pc[j] = "par"
    /\ \E b \in Finished(j) \ Yielded(j) :
        LET order == Append(collect_order[j], b)
            done == completed_iterations[j]
            done2 == CompletedAfter(done, BatchRange(j, b).start, BatchRange(j, b).end)
        IN /\ collect_order' = [collect_order EXCEPT ![j] = order]
           /\ IF should_stop[j]
              THEN /\ pc' = [pc EXCEPT ![j] = "shutdown"]
                   /\ UNCHANGED <<aggregate_losses, iteration_details, completed_iterations,
                                  db_current_iteration, events, raised>>
              ELSE IF future[j][b].st = "raised"
              THEN /\ pc' = [pc EXCEPT ![j] = "shutdown"]
                   /\ raised' = [raised EXCEPT ![j] = "BatchFailed"]
                   /\ UNCHANGED <<aggregate_losses, iteration_details, completed_iterations,
                                  db_current_iteration, events>>
              ELSE /\ aggregate_losses' = [aggregate_losses EXCEPT ![j][b] = Some(future[j][b].rs)]
                   /\ iteration_details' = [iteration_details EXCEPT ![j] =
                            IF params[j].save_raw_losses THEN Append(@, b) ELSE @]
                   /\ completed_iterations' = [completed_iterations EXCEPT ![j] = done2]
                   /\ IF CallbackRaises(j)
                      THEN /\ pc' = [pc EXCEPT ![j] = "shutdown"]
                           /\ raised' = [raised EXCEPT ![j] = "StaleDataError"]
                           /\ UNCHANGED <<db_current_iteration, events>>
                      ELSE /\ pc' = [pc EXCEPT ![j] =
                                    IF Len(order) = Len(future[j]) THEN "shutdown" ELSE "par"]
                           /\ db_current_iteration' = [db_current_iteration EXCEPT ![j] = done2]
                           /\ events' = EventsAfterCallback(j, done2)
                           /\ UNCHANGED raised
    /\ UNCHANGED <<calcVars, libVars, max_concurrent_simulations, row, owner, params, status, error_message,
                   run_result, should_stop, current_iteration, random_state, future,
                   stop_accepted>>

\* ------------------------------------------------ engine: leaving the pool
\* The end of the "with ThreadPoolExecutor" block, reached by the end of the
\* loop, by break or by an exception: shutdown(wait=True) returns when every
\* submitted batch has run.
pool_shutdown(j) ==
    /\ pc[j] = "shutdown"
    /\ PoolDrained(j)
    /\ IF raised[j] # "none"
       THEN /\ pc' = [pc EXCEPT ![j] = "except"]
            /\ run_result' = [run_result EXCEPT ![j] = "raised"]
            /\ should_stop' = [should_stop EXCEPT ![j] = FALSE]
            /\ UNCHANGED current_iteration
       ELSE /\ pc' = [pc EXCEPT ![j] = "ret"]
            /\ current_iteration' = [current_iteration EXCEPT ![j] = completed_iterations[j]]
            /\ UNCHANGED <<run_result, should_stop>>
    /\ UNCHANGED <<calcVars, libVars, max_concurrent_simulations, dbVars, events, raised, random_state, future,
                   collect_order, aggregate_losses, iteration_details, completed_iterations,
                   stop_accepted>>

\* --------------------------------------- engine: the end of run_simulation
\* The slice aggregate_losses[:current_iteration], _calculate_risk_metrics
\* (which raises on an empty vector) and the finally clause.
engine_return(j) ==
    /\ pc[j] = "ret"
    /\ should_stop' = [should_stop EXCEPT ![j] = FALSE]
    /\ IF current_iteration[j] = 0
       THEN /\ pc' = [pc EXCEPT ![j] = "except"]
            /\ raised' = [raised EXCEPT ![j] = "No simulation results to analyze"]
            /\ run_result' = [run_result EXCEPT ![j] = "raised"]
       ELSE /\ pc' = [pc EXCEPT ![j] = "save"]
            /\ run_result' = [run_result EXCEPT ![j] = "returned"]
            /\ UNCHANGED raised
    /\ UNCHANGED <<calcVars, libVars, max_concurrent_simulations, dbVars, events, current_iteration, random_state,
                   future, collect_order, aggregate_losses, iteration_details,
                   completed_iterations, stop_accepted>>

\* --------------------------------------- engine: SimulationEngine.stop_simulation
\* A holder of the engine object asks a running engine to stop.
engine_stop_simulation(j) ==
    /\ pc[j] \in {"seq", "par", "shutdown", "ret"}
    /\ ~should_stop[j]
    /\ should_stop' = [should_stop EXCEPT ![j] = TRUE]
    /\ UNCHANGED <<calcVars, libVars, max_concurrent_simulations, dbVars, events, pc, raised, run_result,
                   current_iteration, random_state, future, collect_order, aggregate_losses,
                   iteration_details, completed_iterations, stop_accepted>>

\* ----------------------------------- background task: results and 'completed'
\* The result row, status 'completed' whatever the status was, the commit (which
\* needs the record) and the simulation_complete event.
bg_complete(j) ==
    /\ pc[j] = "save"
    /\ IF row[j] # "present"
       THEN /\ pc' = [pc EXCEPT ![j] = "except"]
            /\ raised' = [raised EXCEPT ![j] = "StaleDataError"]
            /\ UNCHANGED <<status, events>>
       ELSE /\ pc' = [pc EXCEPT ![j] = "done"]
            /\ status' = [status EXCEPT ![j] = "completed"]
            /\ events' = [events EXCEPT ![j] = Append(@, Event("simulation_complete", 0))]
            /\ UNCHANGED raised
    /\ UNCHANGED <<calcVars, libVars, max_concurrent_simulations, row, owner, params, db_current_iteration,
                   error_message, run_result, engineVars, stop_accepted>>

\* ----------------------------------- background task: the except block
\* Status 'failed' if the record is still there, and the simulation_error event.
bg_except(j) ==
    /\ pc[j] = "except"
    /\ pc' = [pc EXCEPT ![j] = "done"]
    /\ IF row[j] = "present"
       THEN /\ status' = [status EXCEPT ![j] = "failed"]
            /\ error_message' = [error_message EXCEPT ![j] = raised[j]]
       ELSE UNCHANGED <<status, error_message>>
    /\ events' = [events EXCEPT ![j] = Append(@, Event("simulation_error", 0))]
    /\ UNCHANGED <<calcVars, libVars, max_concurrent_simulations, row, owner, params, db_current_iteration,
                   raised, run_result, engineVars, stop_accepted>>

\* ----------------------------------------------------------- specifications
Requests(j) ==
    \/ stop_simulation(j)
    \/ delete_simulation(j)

Task(j) ==
    \/ bg_start(j)
    \/ engine_begin(j)
    \/ seq_iterate(j)
    \/ \E b \in 1..MaxBatches : run_batch(j, b)
    \/ collect(j)
    \/ pool_shutdown(j)
    \/ engine_return(j)
    \/ bg_complete(j)
    \/ bg_except(j)

\* The service: users submit, stop and delete; background tasks run.
Next ==
    \/ \E j \in Jobs : \E u \in Users : \E p \in ServiceChoices : run_simulation(j, u, p)
    \/ \E j \in Jobs : Requests(j)
    \/ \E j \in Jobs : Task(j)

Spec == Init /\ [][Next]_vars

\* One job and its engine, over the wider range of job specs, with a caller
\* of SimulationEngine.stop_simulation.
InitEngine == Init /\ max_concurrent_simulations = DefaultMaxConcurrent

NextEngine ==
    \/ \E p \in EngineChoices : run_simulation(1, 1, p)
    \/ Requests(1)
    \/ Task(1)
    \/ engine_stop_simulation(1)

SpecEngine == InitEngine /\ [][NextEngine]_vars

\* The same, with the scheduling of the code: a started background task (a
\* green thread of the server) and the pool threads of its engine keep running
\* until the task ends.
SpecEngineFair == SpecEngine /\ WF_vars(Task(1))

\* Runs side by side: jobs submitted by one user and left to run to their end.
NextRuns ==
    \/ \E j \in Jobs : \E p \in RunChoices : run_simulation(j, 1, p)
    \/ \E j \in Jobs : Task(j)

SpecRuns == InitEngine /\ [][NextRuns]_vars


\* ----------------------------------------- uses of the financial calculator
\* The arguments: ground-up losses, PolicyTerms and ReinsuranceLayer values
\* that pass __post_init__.
SeverityChoices == {0, 5000, 50000, 500000, 1030000, 1500000}
SeverityVectors ==
    { <<Money(x)>> : x \in SeverityChoices } \cup { <<Money(5000), Money(50000), Money(1500000)>> }

PolicyTerms(coverage_limit, deductible, coinsurance, sub_limits, waiting_period) ==
    [ coverage_limit |-> coverage_limit, deductible |-> deductible, coinsurance |-> coinsurance,
      sub_limits |-> sub_limits, waiting_period |-> waiting_period ]

\* policies without sub-limits and waiting period
PlainPolicies ==
    { PolicyTerms(Money(l), Money(d), c, {}, 0) :
        l \in {1000000, 2000000}, d \in {0, 10000}, c \in {0, 2} }
\* a policy with sub-limits and one with a waiting period
OtherPolicies ==
    { PolicyTerms(Money(1000000), Money(10000), 0, {Money(100000), Money(250000)}, 0),
      PolicyTerms(Money(1000000), Money(10000), 0, {}, 30) }
PolicyChoices == PlainPolicies \cup OtherPolicies
EventDateChoices == {None, Some(10)}

ReinsuranceLayer(layer_type, attachment_point, limit, cession_rate, priority) ==
    [ layer_type |-> layer_type, attachment_point |-> attachment_point, limit |-> limit,
      cession_rate |-> cession_rate, priority |-> priority ]

LayerChoices ==
    { ReinsuranceLayer("quota_share", 0, None, 3, 1),
      ReinsuranceLayer("quota_share", 0, None, 5, 2),
      ReinsuranceLayer("quota_share", 0, None, 10, 1),
      ReinsuranceLayer("surplus", 0, Some(Money(300000)), 5, 1),
      ReinsuranceLayer("excess_of_loss", Money(200000), Some(Money(300000)), 0, 1),
      ReinsuranceLayer("excess_of_loss", 0, None, 0, 2),
      ReinsuranceLayer("stop_loss", Money(200000), Some(Money(300000)), 5, 2) }

LayerLists == UNION { [1..k -> LayerChoices] : k \in 0..MaxLayers }

\* the event date is read only by a policy with a waiting period
FinInputs ==
    { x \in { [ losses |-> v, policy_terms |-> pt, reinsurance_layers |-> ls, event_date |-> ed,
                breakdown |-> [i \in DOMAIN v |-> None], batch |-> None ] :
                v \in SeverityVectors, pt \in PolicyChoices, ls \in LayerLists,
                ed \in EventDateChoices } :
        IsNone(x.event_date) \/ x.policy_terms.waiting_period > 0 }

\* calculate_net_loss for the i-th loss
call_calculate_net_loss(i) ==
    /\ i \in DOMAIN fin.losses
    /\ IsNone(fin.breakdown[i])
    /\ fin' = [fin EXCEPT !.breakdown[i] =
                  Some(calculate_net_loss(fin.losses[i], fin.policy_terms,
                                          fin.reinsurance_layers, fin.event_date))]
    /\ UNCHANGED <<serviceVars, portfolio, float64, libVars>>

\* calculate_batch_losses for the vector of losses
call_calculate_batch_losses ==
    /\ fin.losses # <<>>
    /\ IsNone(fin.batch)
    /\ fin' = [fin EXCEPT !.batch =
                  Some(calculate_batch_losses(fin.losses, fin.policy_terms, fin.reinsurance_layers))]
    /\ UNCHANGED <<serviceVars, portfolio, float64, libVars>>

\* calculate_net_loss for the i-th loss, in binary64
f64_calculate_net_loss(i) ==
    /\ i \in DOMAIN float64.net
    /\ IsNone(float64.net[i])
    /\ float64' = [float64 EXCEPT !.net[i] =
                      Some(calculate_net_loss_f64(fin.losses[i], fin.policy_terms,
                                                  fin.reinsurance_layers, fin.event_date))]
    /\ UNCHANGED <<serviceVars, fin, portfolio, libVars>>

\* calculate_batch_losses for the vector of losses, in binary64
f64_calculate_batch_losses ==
    /\ DOMAIN float64.net # {}
    /\ IsNone(float64.batch)
    /\ float64' = [float64 EXCEPT !.batch =
                      Some(calculate_batch_losses_f64(fin.losses, fin.policy_terms,
                                                      fin.reinsurance_layers))]
    /\ UNCHANGED <<serviceVars, fin, portfolio, libVars>>

\* the policies of a portfolio and the losses of one event
PolicyIds == {"A", "B"}
PortfolioPolicies ==
    [ A |-> PolicyTerms(Money(1000000), Money(10000), 0, {}, 0),
      B |-> PolicyTerms(Money(2000000), 0, 2, {}, 0) ]
EventLossChoices ==
    UNION { [ids -> {0, Money(500000), Money(1500000)}] : ids \in {{"A"}, {"A", "B"}} }
PortfolioInputs ==
    { [ event_losses |-> el,
        portfolio_policies |-> [id \in ids |-> PortfolioPolicies[id]],
        reinsurance_config |-> [policy_specific |-> ps, portfolio_level |-> pl],
        result |-> None ] :
        el \in EventLossChoices, ids \in {{"A"}, {"A", "B"}},
        ps \in { <<>> } \cup { [id \in {"A"} |-> <<l>>] : l \in LayerChoices },
        pl \in { ls \in LayerLists : Len(ls) <= 1 } }

call_calculate_portfolio_loss ==
    /\ DOMAIN portfolio.event_losses # {}
    /\ IsNone(portfolio.result)
    /\ portfolio' = [portfolio EXCEPT !.result =
            Some(calculate_portfolio_loss(portfolio.event_losses, portfolio.portfolio_policies,
                                          portfolio.reinsurance_config))]
    /\ UNCHANGED <<serviceVars, fin, float64, libVars>>

InitFinancial ==
    /\ InitService
    /\ max_concurrent_simulations = DefaultMaxConcurrent
    /\ \/ fin \in FinInputs /\ portfolio = NoPortfolio
       \/ fin = NoCalc /\ portfolio \in PortfolioInputs
    /\ float64 = NoFloat
    /\ NoLibrary

NextFinancial ==
    \/ \E i \in 1..3 : call_calculate_net_loss(i)
    \/ call_calculate_batch_losses
    \/ call_calculate_portfolio_loss

SpecFinancial == InitFinancial /\ [][NextFinancial]_vars

\* the calculator in binary64 on the same arguments
InitFloat ==
    /\ InitService
    /\ max_concurrent_simulations = DefaultMaxConcurrent
    /\ fin \in FinInputs
    /\ portfolio = NoPortfolio
    /\ float64 = [ net |-> [i \in DOMAIN fin.losses |-> None], batch |-> None ]
    /\ NoLibrary

NextFloat ==
    \/ \E i \in 1..3 : f64_calculate_net_loss(i)
    \/ f64_calculate_batch_losses

SpecFloat == InitFloat /\ [][NextFloat]_vars

\* --------------------------------- metrics, serialization, portfolio loss
\* loss vectors of up to MaxLosses iterations, the losses given in tenths
LossVectors ==
    UNION { [1..n -> { F64FromTenths(x) : x \in {0, 3, 7, 10} }] : n \in 1..MaxLosses }

\* RiskMetricsCalculator.calculate_metrics: the risk measures
calculate_metrics ==
    /\ metrics.losses # <<>>
    /\ IsNone(metrics.var)
    /\ metrics' = [metrics EXCEPT !.var = Some(calculate_var(metrics.losses)),
                                  !.tvar = Some(calculate_tvar(metrics.losses))]
    /\ UNCHANGED <<serviceVars, calcVars, serialized, portfolio_iteration>>

\* parameters.to_dict() and SimulationParameters.from_dict(data)
call_to_dict ==
    /\ ~IsNone(serialized.parameters)
    /\ IsNone(serialized.data)
    /\ serialized' = [serialized EXCEPT !.data = Some(to_dict(Get(serialized.parameters)))]
    /\ UNCHANGED <<serviceVars, calcVars, metrics, portfolio_iteration>>

call_from_dict ==
    /\ ~IsNone(serialized.data)
    /\ IsNone(serialized.parsed)
    /\ serialized' = [serialized EXCEPT !.parsed = Some(from_dict(Get(serialized.data)))]
    /\ UNCHANGED <<serviceVars, calcVars, metrics, portfolio_iteration>>

\* _calculate_portfolio_iteration_loss for the events of one iteration
call_calculate_portfolio_iteration_loss ==
    /\ DOMAIN portfolio_iteration.portfolio_policies # {}
    /\ IsNone(portfolio_iteration.result)
    /\ portfolio_iteration' = [portfolio_iteration EXCEPT !.result =
            Some(calculate_portfolio_iteration_loss(portfolio_iteration.event_severities,
                                                    portfolio_iteration.portfolio_policies,
                                                    Get(portfolio_iteration.parameters)))]
    /\ UNCHANGED <<serviceVars, calcVars, metrics, serialized>>

InitLibrary ==
    /\ InitService
    /\ max_concurrent_simulations = DefaultMaxConcurrent
    /\ fin = NoCalc /\ portfolio = NoPortfolio /\ float64 = NoFloat
    /\ \/ /\ metrics = [ losses |-> <<>>, var |-> None, tvar |-> None ]
          /\ serialized = [ parameters |-> None, data |-> None, parsed |-> None ]
          /\ portfolio_iteration \in
               { [ event_severities |-> v,
                   portfolio_policies |->
                       [ id \in ids |-> PortfolioPolicies[id] @@ [policy_aggregate |-> agg] ],
                   parameters |-> Some([ apply_reinsurance |-> ar,
                                         reinsurance_config |-> [portfolio_level |-> pl] ]),
                   result |-> None ] :
                   v \in SeverityVectors \cup { <<>> }, ids \in {{"A"}, {"A", "B"}},
                   agg \in {None, Some(Money(1000000))}, ar \in BOOLEAN,
                   pl \in { ls \in LayerLists : Len(ls) <= 1 } }
       \/ /\ portfolio_iteration = [ event_severities |-> <<>>, portfolio_policies |-> <<>>,
                                     parameters |-> None, result |-> None ]
          /\ \/ /\ metrics \in { [ losses |-> v, var |-> None, tvar |-> None ] : v \in LossVectors }
                /\ serialized = [ parameters |-> None, data |-> None, parsed |-> None ]
             \/ /\ metrics = [ losses |-> <<>>, var |-> None, tvar |-> None ]
                /\ serialized \in
                     LET Defaults ==
                           [ frequency_distribution |-> "poisson", severity_distribution |-> "lognormal",
                             severity_params |-> None, correlation_enabled |-> FALSE,
                             correlation_params |-> None, portfolio_id |-> None,
                             portfolio_config |-> None, apply_deductibles |-> TRUE,
                             apply_limits |-> TRUE, max_events_per_iteration |-> 100,
                             convergence_threshold |-> 1, calculate_percentiles |-> TRUE,
                             percentile_levels |-> <<10, 50, 100, 250, 500, 750, 900, 950, 990, 999>> ]
                         Custom ==
                           [ frequency_distribution |-> "negative_binomial", severity_distribution |-> "pareto",
                             severity_params |-> Some(2), correlation_enabled |-> TRUE,
                             correlation_params |-> Some(5), portfolio_id |-> Some("portfolio"),
                             portfolio_config |-> Some(1), apply_deductibles |-> FALSE,
                             apply_limits |-> FALSE, max_events_per_iteration |-> 7,
                             convergence_threshold |-> 5, calculate_percentiles |-> FALSE,
                             percentile_levels |-> <<500, 990>> ]
                     IN { [ parameters |-> Some(p @@ other), data |-> None, parsed |-> None ] :
                            p \in EngineChoices, other \in {Defaults, Custom} }

NextLibrary ==
    \/ calculate_metrics
    \/ call_to_dict
    \/ call_from_dict
    \/ call_calculate_portfolio_iteration_loss

SpecLibrary == InitLibrary /\ [][NextLibrary]_vars

\* ------------------------------------------------------- results of a run
\* Slot i (0-based) of aggregate_losses: zero until written; in sequential mode
\* written by iteration i from the engine's stream, in parallel mode by the
\* slice assignment of the batch that contains i.
LossAt(j, i) ==
    IF UsesParallel(params[j])
    THEN LET b == (i \div params[j].batch_size) + 1
         IN IF IsNone(aggregate_losses[j][b]) THEN 0
            ELSE IterationLoss(Get(aggregate_losses[j][b]), i - BatchRange(j, b).start)
    ELSE IF i < current_iteration[j] THEN IterationLoss(random_state[j], i) ELSE 0

\* 'aggregate_losses' of the returned loss_data: aggregate_losses[:current_iteration]
LossVector(j) == [i \in 1..current_iteration[j] |-> LossAt(j, i - 1)]

\* the detail records one batch returns
BatchDetails(j, b) ==
    [k \in 1..BatchLen(j, b) |->
        [iteration |-> BatchRange(j, b).start + k - 1,
         total_loss |-> IterationLoss(future[j][b].rs, k - 1)]]

RECURSIVE ExtendAll(_, _)
ExtendAll(j, order) ==
    IF order = <<>> THEN <<>>
    ELSE BatchDetails(j, Head(order)) \o ExtendAll(j, Tail(order))

\* 'iteration_details' of the returned loss_data in parallel mode
DetailVector(j) == ExtendAll(j, iteration_details[j])

\* the iteration counts carried by the job's progress events, in order
RECURSIVE ProgressOf(_)
ProgressOf(evs) ==
    IF evs = <<>> THEN <<>>
    ELSE IF Head(evs).kind = "simulation_progress"
         THEN <<Head(evs).current_iteration>> \o ProgressOf(Tail(evs))
         ELSE ProgressOf(Tail(evs))

RunningCount(u) ==
    Cardinality({ j \in Jobs : row[j] = "present" /\ owner[j] = u /\ status[j] = "running" })

\* ------------------------------------------------------------------ claims

\* C1: once a job's status is completed, failed or cancelled, no later step
\* changes it; in particular the background task never sets a cancelled job to
\* running, completed or failed.
C1_TerminalStatusIsFinal ==
    [][\A j \in Jobs : (row[j] = "present" /\ status[j] \in Terminal) => status'[j] = status[j]]_vars

\* C2: for every user, the number of that user's jobs whose status is running
\* never exceeds the configured per-user cap.
C2_RunningWithinCap ==
    \A u \in Users : RunningCount(u) <= max_concurrent_simulations

\* C3: a job that is pending while its owner already has cap running jobs
\* does not enter running (it waits until one of them has ended).
C3_QueuedWhileAtCap ==
    [][\A j \in Jobs :
          (row[j] = "present" /\ status[j] = "pending"
             /\ RunningCount(owner[j]) >= max_concurrent_simulations)
          => status'[j] # "running"]_vars

\* C4: a job whose stop was accepted while it was running with fewer than all
\* iterations done ends cancelled, with 0 < current_iteration < iterations.
C4_CancelledPartial ==
    \A j \in Jobs :
        (pc[j] = "done" /\ row[j] = "present" /\ stop_accepted[j] = "running_partial")
        => /\ status[j] = "cancelled"
           /\ 0 < db_current_iteration[j]
           /\ db_current_iteration[j] < N(j)

\* C5: after a stop request for a job has been accepted, no simulation_progress
\* event is emitted for that job.
C5_NoProgressAfterStop ==
    \A j \in Jobs : \A a, b \in DOMAIN events[j] :
        (a < b /\ events[j][a].kind = "simulation_stopped")
        => events[j][b].kind # "simulation_progress"

\* C6: when the background task of a job has ended, the number of progress
\* events carrying current_iteration = iterations is one if the job is
\* completed and zero if it is failed or cancelled.
C6_FinalProgressOnce ==
    \A j \in Jobs :
        (pc[j] = "done" /\ row[j] = "present" /\ status[j] \in Terminal)
        => Cardinality({ a \in DOMAIN events[j] :
                            /\ events[j][a].kind = "simulation_progress"
                            /\ events[j][a].current_iteration = N(j) })
           = (IF status[j] = "completed" THEN 1 ELSE 0)

\* C7: the current_iteration values of the successive progress events of one
\* job never decrease and never exceed iterations.
C7_ProgressMonotone ==
    \A j \in Jobs :
        LET pr == ProgressOf(events[j])
        IN \A a, b \in DOMAIN pr : /\ pr[a] <= N(j)
                                   /\ (a < b => pr[a] <= pr[b])

\* C7 witness: a parallel run whose first collected batch was not the first
\* submitted one and that has emitted at least two progress events.
C7_OutOfOrderProgress ==
    \E j \in Jobs :
        /\ UsesParallel(params[j])
        /\ Len(collect_order[j]) >= 2
        /\ collect_order[j][1] # 1
        /\ Len(ProgressOf(events[j])) >= 2

\* C8: when run_simulation has returned normally, the returned loss vector has
\* exactly num_iterations entries, all of them >= 0.
C8_ReturnedVectorComplete ==
    \A j \in Jobs :
        run_result[j] = "returned"
        => /\ Len(LossVector(j)) = N(j)
           /\ \A i \in 0..(N(j) - 1) : LossAt(j, i) >= 0

\* C9: two runs of the same job spec with a seed seed every RNG stream
\* identically and return identical loss vectors.
C9_SameSeedSameLosses ==
    \A j1, j2 \in Jobs :
        (/\ params[j1] = params[j2]
         /\ ~IsNone(params[j1].random_seed)
         /\ run_result[j1] = "returned" /\ run_result[j2] = "returned")
        => /\ random_state[j1] = random_state[j2]
           /\ future[j1] = future[j2]
           /\ LossVector(j1) = LossVector(j2)

\* C10: two parallel runs of the same job spec, seeded so that every batch
\* stream is determined by the seed, return the same loss vector and, with
\* save_raw_losses, the same detail vector, whatever the order in which their
\* batches finished.
C10_OrderIndependentResults ==
    \A j1, j2 \in Jobs :
        (/\ params[j1] = params[j2]
         /\ UsesParallel(params[j1])
         /\ SeedTruthy(params[j1].random_seed)
         /\ run_result[j1] = "returned" /\ run_result[j2] = "returned")
        => /\ LossVector(j1) = LossVector(j2)
           /\ (params[j1].save_raw_losses => DetailVector(j1) = DetailVector(j2))

\* C11: when run_simulation has returned or raised, no batch task submitted to
\* the worker pool by that call is still queued or executing.
C11_NoBatchLeftBehind ==
    \A j \in Jobs :
        run_result[j] # "none" => \A b \in DOMAIN future[j] : future[j][b].st # "pending"

\* C11 witness: a parallel run that left its collection loop early (stop
\* request or failed batch), so that batches were still uncollected, has
\* returned or raised.
C11_LeftLoopEarly ==
    \E j \in Jobs :
        /\ run_result[j] # "none"
        /\ Len(future[j]) >= 2
        /\ Len(collect_order[j]) < Len(future[j])

\* C12: no job created from a spec that SimulationParameters.validate rejects
\* for its poisson lambda (missing or not positive), for reinsurance enabled
\* without a configuration, or for a checked convergence window that is not
\* smaller than iterations, ever has status running (submit rejects it).
C12_InvalidSpecNeverRuns ==
    \A j \in Jobs :
        LET p == params[j]
            badLambda == IF IsNone(p.frequency_params) THEN TRUE ELSE Get(p.frequency_params) <= 0
            badReinsurance == p.apply_reinsurance /\ p.reinsurance_config = {}
            badWindow == p.convergence_check /\ p.convergence_window >= p.num_iterations
        IN (row[j] # "absent" /\ (badLambda \/ badReinsurance \/ badWindow))
           => status[j] # "running"

\* C13: every job that enters running eventually reaches a terminal state, and
\* exactly one (a terminal status reached after the task started is not
\* replaced by another); and when engine.run_simulation has raised, the job's
\* status becomes failed, with the error message stored in the record and a
\* simulation_error event emitted to the owner's room.
C13_RunningEndsInOneTerminalState ==
    /\ \A j \in Jobs :
          (row[j] = "present" /\ status[j] = "running")
          ~> (row[j] # "present" \/ status[j] \in Terminal)
    /\ [][\A j \in Jobs :
            (row[j] = "present" /\ pc[j] \notin {"idle", "scheduled"} /\ status[j] \in Terminal)
            => status'[j] = status[j]]_vars
    /\ [](\A j \in Jobs :
            (pc[j] = "done" /\ run_result[j] = "raised" /\ row[j] = "present")
            => /\ status[j] = "failed"
               /\ error_message[j] = raised[j]
               /\ \E a \in DOMAIN events[j] : events[j][a].kind = "simulation_error")

\* C14: the events of a job occur in lifecycle order: a queued event on
\* submit, then the status event for running, then progress events, then one
\* terminal event (complete, error or stopped); at most one terminal event is
\* emitted, exactly one once the task has ended, and no event follows it.
C14_EventsInLifecycleOrder ==
    \A j \in Jobs :
        LET ev == events[j]
            terminalEvents == {"simulation_complete", "simulation_error", "simulation_stopped"}
            rank(k) == IF k = "simulation_queued" THEN 0
                       ELSE IF k = "simulation_status" THEN 1
                       ELSE IF k = "simulation_progress" THEN 2
                       ELSE 3
        IN /\ row[j] # "absent" => (Len(ev) >= 1 /\ ev[1].kind = "simulation_queued")
           /\ \A a, b \in DOMAIN ev :
                a < b => /\ rank(ev[a].kind) <= rank(ev[b].kind)
                         /\ ev[a].kind \notin terminalEvents
           /\ (pc[j] = "done" /\ status[j] \in Terminal)
                => Cardinality({ a \in DOMAIN ev : ev[a].kind \in terminalEvents }) = 1

\* C15: for a policy with coinsurance 0, no sub-limits, no waiting period and
\* no reinsurance, the net loss of a ground-up loss s is 0 when s <= d, s - d
\* when d < s < L and L - d when s >= L, in the single-loss and in the batch
\* calculation (so 5000, 50000 and 1500000 under d = 10000, L = 1000000 give
\* 0, 40000 and 990000).
C15_DeductibleThenLimit ==
    IF fin.losses = <<>> THEN TRUE
    ELSE LET pt == fin.policy_terms
             d == pt.deductible
             L == pt.coverage_limit
             expected(x) == IF x <= d THEN 0 ELSE IF x < L THEN x - d ELSE L - d
         IN (/\ pt.coinsurance = 0 /\ pt.sub_limits = {} /\ pt.waiting_period = 0
             /\ fin.reinsurance_layers = <<>>)
            => /\ \A i \in DOMAIN fin.losses :
                    IsNone(fin.breakdown[i])
                    \/ Get(fin.breakdown[i]).insurer_net_loss = expected(fin.losses[i])
               /\ IsNone(fin.batch)
                  \/ \A i \in DOMAIN fin.losses : Get(fin.batch)[i] = expected(fin.losses[i])

\* C16: for a gross loss g > 0 and a single reinsurance layer the recovery is
\* the formula of the layer kind (quota_share g*rate; surplus min(g, limit)*rate;
\* excess_of_loss min(max(0, g - attachment), limit); stop_loss
\* min(max(0, g - attachment)*rate, limit); a layer without a limit is not
\* capped), and net = g - recovery.
C16_SingleLayerRecovery ==
    IF fin.losses = <<>> THEN TRUE
    ELSE Len(fin.reinsurance_layers) = 1
         => LET layer == fin.reinsurance_layers[1]
                kind == layer.layer_type
                rate == layer.cession_rate
                att == layer.attachment_point
                cap(x) == IF IsNone(layer.limit) THEN x ELSE Min(x, Get(layer.limit))
                formula(g) ==
                    IF kind = "quota_share" THEN Times(g, rate)
                    ELSE IF kind = "surplus" THEN Times(cap(g), rate)
                    ELSE IF kind = "excess_of_loss" THEN cap(Max(0, g - att))
                    ELSE cap(Times(Max(0, g - att), rate))
            IN \A i \in DOMAIN fin.losses :
                 IsNone(fin.breakdown[i])
                 \/ LET b == Get(fin.breakdown[i])
                        g == b.insurer_gross_loss
                    IN g > 0 => /\ b.reinsurance_recovery = formula(g)
                                /\ b.insurer_net_loss = g - formula(g)

\* C16 witness: an excess-of-loss layer with attachment 200000 and limit 300000
\* on a gross loss of 490000 recovers 290000 and leaves a net loss of 200000.
C16_ExcessOfLossExample ==
    /\ fin.losses # <<>>
    /\ Len(fin.reinsurance_layers) = 1
    /\ fin.reinsurance_layers[1].layer_type = "excess_of_loss"
    /\ fin.reinsurance_layers[1].attachment_point = Money(200000)
    /\ fin.reinsurance_layers[1].limit = Some(Money(300000))
    /\ \E i \in DOMAIN fin.losses :
          /\ ~IsNone(fin.breakdown[i])
          /\ Get(fin.breakdown[i]).insurer_gross_loss = Money(490000)
          /\ Get(fin.breakdown[i]).reinsurance_recovery = Money(290000)
          /\ Get(fin.breakdown[i]).insurer_net_loss = Money(200000)

\* C17: for every loss, policy and combination of policy-specific and
\* portfolio-level layers, the final net insurer loss of calculate_net_loss and
\* of calculate_portfolio_loss satisfies 0 <= net <= gross.
C17_NetBetweenZeroAndGross ==
    /\ \A i \in DOMAIN fin.breakdown :
          IsNone(fin.breakdown[i])
          \/ LET b == Get(fin.breakdown[i])
             IN 0 <= b.insurer_net_loss /\ b.insurer_net_loss <= b.insurer_gross_loss
    /\ IsNone(portfolio.result)
       \/ LET r == Get(portfolio.result)
          IN 0 <= r.total_net_loss /\ r.total_net_loss <= r.total_gross_loss

\* C18: for a fixed severity and a fixed list of reinsurance layers, the net
\* insurer loss does not decrease when the deductible is reduced, does not
\* decrease when the coverage limit is increased, and does not increase when
\* the coinsurance is increased.
C18_FinancialMonotonicity ==
    IF fin.losses = <<>> THEN TRUE
    ELSE LET pt == fin.policy_terms
             net(i, terms) ==
                 calculate_net_loss(fin.losses[i], terms, fin.reinsurance_layers,
                                    fin.event_date).insurer_net_loss
         IN \A i \in DOMAIN fin.losses :
              IsNone(fin.breakdown[i])
              \/ LET computed == Get(fin.breakdown[i]).insurer_net_loss
                 IN /\ \A d \in {q.deductible : q \in PolicyChoices} :
                         d <= pt.deductible
                         => net(i, [pt EXCEPT !.deductible = d]) >= computed
                    /\ \A l \in {q.coverage_limit : q \in PolicyChoices} :
                         l >= pt.coverage_limit
                         => net(i, [pt EXCEPT !.coverage_limit = l]) >= computed
                    /\ \A c \in {q.coinsurance : q \in PolicyChoices} :
                         c >= pt.coinsurance
                         => net(i, [pt EXCEPT !.coinsurance = c]) <= computed

\* C19: for every gross loss > 0 and every existing list of reinsurance layers,
\* adding a quota-share layer with cession_rate > 0 (at any place of the list)
\* makes the net insurer loss strictly smaller than it is without that layer.
C19_QuotaShareStrictlyDecreases ==
    IF fin.losses = <<>> THEN TRUE
    ELSE LET pt == fin.policy_terms
             existing == fin.reinsurance_layers
             added == { q \in LayerChoices : q.layer_type = "quota_share" /\ q.cession_rate > 0 }
             with(q, k) == SubSeq(existing, 1, k) \o <<q>> \o SubSeq(existing, k + 1, Len(existing))
             single(i, layers) == calculate_net_loss(fin.losses[i], pt, layers, fin.event_date)
             batch(layers) == calculate_batch_losses(fin.losses, pt, layers)
         IN \A q \in added : \A k \in 0..Len(existing) : \A i \in DOMAIN fin.losses :
              /\ IsNone(fin.breakdown[i])
                 \/ LET without == Get(fin.breakdown[i])
                    IN without.insurer_gross_loss > 0
                       => single(i, with(q, k)).insurer_net_loss < without.insurer_net_loss
              /\ IsNone(fin.batch)
                 \/ LET without == Get(fin.batch)[i]
                    IN batch(<<>>)[i] > 0
                       => batch(with(q, k))[i] < without

\* C19 amended: for every gross loss > 0 and every existing list of layers,
\* adding a quota-share layer with cession_rate > 0 makes the net insurer loss
\* strictly smaller when the net loss without that layer is > 0, and leaves it
\* at 0 when the existing layers already recover the whole gross loss.
C19_QuotaShareDecreasesPositiveNet ==
    IF fin.losses = <<>> THEN TRUE
    ELSE LET pt == fin.policy_terms
             existing == fin.reinsurance_layers
             added == { q \in LayerChoices : q.layer_type = "quota_share" /\ q.cession_rate > 0 }
             with(q, k) == SubSeq(existing, 1, k) \o <<q>> \o SubSeq(existing, k + 1, Len(existing))
             single(i, layers) == calculate_net_loss(fin.losses[i], pt, layers, fin.event_date)
             batch(layers) == calculate_batch_losses(fin.losses, pt, layers)
         IN \A q \in added : \A k \in 0..Len(existing) : \A i \in DOMAIN fin.losses :
              /\ IsNone(fin.breakdown[i])
                 \/ LET without == Get(fin.breakdown[i])
                    IN without.insurer_gross_loss > 0
                       => IF without.insurer_net_loss > 0
                          THEN single(i, with(q, k)).insurer_net_loss < without.insurer_net_loss
                          ELSE single(i, with(q, k)).insurer_net_loss = 0
              /\ IsNone(fin.batch)
                 \/ LET without == Get(fin.batch)[i]
                    IN batch(<<>>)[i] > 0
                       => IF without > 0 THEN batch(with(q, k))[i] < without
                          ELSE batch(with(q, k))[i] = 0

\* C19 witness: a net loss computed under a non-empty list of layers that
\* recovers part of a positive gross loss and leaves a positive net loss.
C19_PartlyRecoveredLoss ==
    /\ fin.losses # <<>>
    /\ fin.reinsurance_layers # <<>>
    /\ \E i \in DOMAIN fin.losses :
          /\ ~IsNone(fin.breakdown[i])
          /\ Get(fin.breakdown[i]).reinsurance_recovery > 0
          /\ Get(fin.breakdown[i]).insurer_net_loss > 0

\* C20: for a policy with no sub-limits and no waiting period and only
\* quota-share layers, calculate_batch_losses returns at every index the same
\* net loss as calculate_net_loss on that severity with the same policy and
\* layers.
C20_BatchEqualsSingle ==
    (/\ fin.policy_terms.sub_limits = {}
     /\ fin.policy_terms.waiting_period = 0
     /\ \A k \in DOMAIN fin.reinsurance_layers :
           fin.reinsurance_layers[k].layer_type = "quota_share")
    => \A i \in DOMAIN float64.net :
          IsNone(float64.net[i]) \/ IsNone(float64.batch)
          \/ Get(float64.batch)[i] = Get(float64.net[i])

\* C21: for every non-empty loss vector and all computed confidence levels
\* c1 <= c2, VaR at c1 <= VaR at c2 <= TVaR at c2, and TVaR at c >= VaR at c
\* for every level c.
C21_RiskMeasuresOrdered ==
    IsNone(metrics.var)
    \/ LET var == Get(metrics.var)
           tvar == Get(metrics.tvar)
       IN \A c1, c2 \in ConfidenceLevels :
            c1 <= c2 => /\ F64Cmp(var[c1], var[c2]) <= 0
                        /\ F64Cmp(var[c2], tvar[c2]) <= 0

\* C22: for every SimulationParameters p, from_dict(to_dict(p)) equals p in
\* every field, including the nested event parameters.
C22_RoundTrip ==
    IsNone(serialized.parsed) \/ Get(serialized.parsed) = Get(serialized.parameters)

\* C22 witness: a spec with a seed, a frequency parameter and a worker count
\* has been serialized and parsed back.
C22_ParsedBack ==
    /\ ~IsNone(serialized.parsed)
    /\ ~IsNone(Get(serialized.parameters).random_seed)
    /\ ~IsNone(Get(serialized.parameters).frequency_params)
    /\ ~IsNone(Get(serialized.parameters).max_workers)
    /\ Get(serialized.parameters).severity_distribution = "pareto"
    /\ Get(serialized.parameters).percentile_levels = <<500, 990>>
    /\ Get(serialized.data).event_params.frequency_params
         = Get(serialized.parameters).frequency_params

\* C23: the batches of a parallel run are contiguous, pairwise disjoint ranges
\* that cover 0..num_iterations-1 exactly once, and a slot of the loss vector
\* changes only in the turn of the collection loop that yields the batch whose
\* range contains the slot, to the loss that batch computed for it (stated for
\* every batch as a whole and for the first and last slot of every batch).
C23_DisjointBatchWrites ==
    [][\A j \in Jobs :
         pc[j] = "par" =>
           LET bs == Batches(params[j])
               b == collect_order'[j][Len(collect_order'[j])]
           IN /\ Len(bs) >= 1
              /\ bs[1].start = 0
              /\ bs[Len(bs)].end = N(j)
              /\ \A k \in 1..Len(bs) :
                    /\ bs[k].start < bs[k].end
                    /\ k < Len(bs) => bs[k + 1].start = bs[k].end
              /\ \A k \in 1..Len(bs) :
                    aggregate_losses'[j][k] # aggregate_losses[j][k] =>
                       /\ collect_order'[j] # collect_order[j]
                       /\ k = b
                       /\ aggregate_losses'[j][k] = Some(future[j][k].rs)
              /\ \A i \in { bs[k].start : k \in 1..Len(bs) } \cup { bs[k].end - 1 : k \in 1..Len(bs) } :
                    LossAt(j, i)' # LossAt(j, i) =>
                       /\ collect_order'[j] # collect_order[j]
                       /\ bs[b].start <= i /\ i < bs[b].end
                       /\ LossAt(j, i)' = IterationLoss(future[j][b].rs, i - bs[b].start)
    ]_vars

\* C23 witness: a run of three batches, the last one shorter, whose batches
\* were collected out of submission order and stored.
C23_OutOfOrderStored ==
    \E j \in Jobs :
        /\ pc[j] = "par"
        /\ Len(future[j]) = 3
        /\ BatchLen(j, 3) < BatchLen(j, 1)
        /\ Len(collect_order[j]) = 2
        /\ collect_order[j][1] > collect_order[j][2]
        /\ \A k \in 1..2 : ~IsNone(aggregate_losses[j][collect_order[j][k]])
        /\ \E k \in 1..3 : LossAt(j, BatchRange(j, k).start) # 0

\* C24: in portfolio mode with reinsurance enabled and portfolio-level layers
\* configured, the loss of the iteration is the sum of the policies' covered
\* losses minus the recoveries of those layers, applied in ascending priority.
C24_PortfolioLayersApplied ==
    LET it == portfolio_iteration
        par == Get(it.parameters)
        covered == SumOver(Get(it.result).policy_total, DOMAIN it.portfolio_policies)
    IN (/\ ~IsNone(it.result)
        /\ par.apply_reinsurance
        /\ par.reinsurance_config.portfolio_level # <<>>)
       => Get(it.result).total_loss
            = covered - calculate_reinsurance_recovery(covered, par.reinsurance_config.portfolio_level)

\* C25: for every policy whose policy_aggregate is set, the policy's
\* accumulated contribution to the loss of the iteration does not exceed
\* policy_aggregate (the losses are non-negative, so the total after the last
\* event bounds the total after every event).
C25_PolicyAggregateCaps ==
    LET it == portfolio_iteration
    IN ~IsNone(it.result) =>
         \A id \in DOMAIN it.portfolio_policies :
            ~IsNone(it.portfolio_policies[id].policy_aggregate) =>
               Get(it.result).policy_total[id] <= Get(it.portfolio_policies[id].policy_aggregate)

\* C26: for every spec accepted by validation with parallel on, the worker
\* pool is created (the constructor of the pool does not raise) with
\* min(max_workers if given else the default, number of batches) workers,
\* which is at least 1 and at most the number of batches.
C26_PoolSize ==
    \A j \in Jobs :
        LET p == params[j]
            given_or_default == IF IsNone(p.max_workers) THEN DefaultMaxWorkers ELSE Get(p.max_workers)
        IN /\ raised[j] # "ValueError"
           /\ pc[j] \in {"par", "shutdown"} =>
                /\ NumWorkersOf(p) = Min(given_or_default, NumBatches(p))
                /\ NumWorkersOf(p) >= 1
                /\ NumWorkersOf(p) <= NumBatches(p)

\* C27: a spec with iterations anywhere in [1, 10000000] and the other fields
\* at their defaults (batch_size 1000, parallel on, max_workers unset), whose
\* remaining fields pass validation, is not rejected by validation; in
\* particular iterations smaller than the default batch_size are accepted.
C27_DefaultsAccepted ==
    \A j \in Jobs :
        LET p == params[j]
        IN (/\ p.num_iterations >= 1 /\ p.num_iterations <= 10000000
            /\ p.batch_size = 1000 /\ p.parallel_processing /\ IsNone(p.max_workers)
            /\ ParamsValid([p EXCEPT !.num_iterations = 1000]))
           => raised[j] # "ParameterError"

\* C28: for every valid root seed and every batch start index below
\* num_iterations, the seed derived for the batch (root seed + start index) is
\* within the range the RNG accepts, so no batch of a validated job fails
\* while seeding its RNG.
C28_BatchSeedInRange ==
    \A j \in Jobs : \A b \in DOMAIN future[j] :
        LET arg == BatchSeedArg(params[j], BatchRange(j, b).start)
        IN /\ IsNone(arg) \/ SeedInRange(Get(arg))
           /\ future[j][b].st # "raised"

\* C29: when a stop request has interrupted the parallel collection loop, the
\* returned partial loss vector holds, in every slot, a loss produced by the
\* batch that owns the slot: no slot of a batch whose result was not stored is
\* returned, and no stored batch is cut off.
C29_PartialVectorOwned ==
    \A j \in Jobs :
        (/\ pc[j] = "ret"
         /\ UsesParallel(params[j])
         /\ \E b \in Yielded(j) : IsNone(aggregate_losses[j][b]))
        => \A b \in DOMAIN aggregate_losses[j] :
              IF IsNone(aggregate_losses[j][b])
              THEN BatchRange(j, b).start >= Len(LossVector(j))
              ELSE BatchRange(j, b).end <= Len(LossVector(j))

\* C30: a job record is never deleted while its background simulation run is
\* still executing: whenever the record is gone, the job has no live engine
\* run and the background task is not about to write results for it.
C30_NoDeleteWhileExecuting ==
    \A j \in Jobs :
        row[j] = "deleted" => pc[j] \notin {"starting", "seq", "par", "shutdown", "ret", "save"}

====
